---- MODULE Spec2Model ----
(***************************************************************************)
(* Model of the socket.io session and broadcast core of blueprint-node     *)
(* (server.js) and of the persistence gateway it calls (db.js).            *)
(*                                                                         *)
(* Encodings.  A JavaScript null / undefined field of a player entry is    *)
(* the empty sequence <<>>; a position or rotation is a sequence of three  *)
(* integers; a display name is a sequence of one-character strings; a      *)
(* colour is the sequence of characters handed to generateColorFromId      *)
(* (the colour is a function of exactly that string).  The two Maps are    *)
(* functions whose DOMAIN is the Map's key set.  Rows of a table are kept  *)
(* in insertion order and the SERIAL id of a row is its index.             *)
(*                                                                         *)
(* Every await of a gateway call is a suspension point: the query is       *)
(* executed by one action (Exec...), the continuation of the handler that  *)
(* touches the Maps, the room groups or a socket runs in a later action.   *)
(***************************************************************************)
EXTENDS Integers, Sequences, FiniteSets, Bags, TLC

\* ---------------------------------------------------------------- bounds
MaxConns == 2
MaxTasks == 2
MaxEvents == 3
MaxChatEvents == 3
MaxFails == 1
MaxPresenceEvents == 4
MaxHistoryEvents == 2

\* ------------------------------------------------------ program constants
NameLimit == 20
HistoryLimit == 50

Conns == 1..MaxConns

Usernames == {"alice"}
RoomNames == {"general", "lobby"}
Texts == {"hi"}

VARIABLES
  status,         \* connection -> "new" | "open" | "closed" (transport),
                  \* "crashed" once the process has exited
  activePlayers,  \* Map socketId -> player entry
  activeUsers,    \* Map socketId -> session
  groups,         \* socket.io adapter: connection -> set of room ids joined
  users,          \* table users: sequence of usernames, id = index
  rooms,          \* table rooms: sequence of room names, id = index
  messages,       \* table messages: sequence of rows, id = index
  tasks,          \* the suspended invocations of the async handlers
  events,         \* number of inbound requests received so far
  fails,          \* number of gateway calls that have failed so far
  bcast,          \* chatMessage broadcasts made so far, in order
  emits           \* events emitted by the latest step, in order

vars == <<status, activePlayers, activeUsers, groups, users, rooms, messages,
          tasks, events, fails, bcast, emits>>

\* ------------------------------------------------------------ JS values
Null == <<>>

Num(n) == [tag |-> "num", n |-> n]
Str == [tag |-> "str", n |-> 0]
Undef == [tag |-> "undef", n |-> 0]
\* a string that holds the decimal numeral of n
NumStr(n) == [tag |-> "numstr", n |-> n]
\* true (n = 1) and false (n = 0)
Bool(b) == [tag |-> "bool", n |-> IF b THEN 1 ELSE 0]
JsNull == [tag |-> "null", n |-> 0]

\* Number(v): the number itself, the value of a numeric string, 1 and 0 for
\* true and false, 0 for null, NaN for undefined and for a non-numeric string
NumberOf(v) == IF v.tag \in {"num", "numstr", "bool"} THEN [nan |-> FALSE, n |-> v.n]
               ELSE IF v.tag = "null" THEN [nan |-> FALSE, n |-> 0]
               ELSE [nan |-> TRUE, n |-> 0]

\* Number(v) || 0
Coerce(v) == IF NumberOf(v).nan \/ NumberOf(v).n = 0 THEN 0 ELSE NumberOf(v).n

Sanitize(obj) == <<Coerce(obj[1]), Coerce(obj[2]), Coerce(obj[3])>>

\* payloads of playerUpdate: position / rotation objects are triples of JS
\* values (x, y, z); <<>> is an absent field
\* {position: {x: "abc"}, rotation: {x: 1, y: 1, z: 1}}
NonNumericFrame ==
  [present |-> TRUE, position |-> <<Str, Undef, Undef>>,
                     rotation |-> <<Num(1), Num(1), Num(1)>>]

Payloads ==
  { [present |-> FALSE, position |-> <<>>, rotation |-> <<>>],
    [present |-> TRUE, position |-> <<>>, rotation |-> <<Num(1), Num(1), Num(1)>>],
    [present |-> TRUE, position |-> <<Num(1), Num(2), Num(3)>>, rotation |-> <<>>],
    NonNumericFrame,
    [present |-> TRUE, position |-> <<Bool(TRUE), NumStr(5), JsNull>>,
                       rotation |-> <<Bool(FALSE), Num(1), Str>>],
    [present |-> TRUE, position |-> <<Num(1), Num(2), Num(0)>>,
                       rotation |-> <<Num(0), Undef, Num(2)>>] }

\* ------------------------------------------------------------- strings
RECURSIVE TrimLeft(_)
TrimLeft(s) == IF s # <<>> /\ Head(s) = " " THEN TrimLeft(Tail(s)) ELSE s

RECURSIVE TrimRight(_)
TrimRight(s) == IF s # <<>> /\ s[Len(s)] = " "
                THEN TrimRight(SubSeq(s, 1, Len(s) - 1)) ELSE s

Trim(s) == TrimRight(TrimLeft(s))

\* s.slice(0, n)
Slice(s, n) == IF Len(s) <= n THEN s ELSE SubSeq(s, 1, n)

\* typeof username === 'string' ? username.trim().slice(0, 20) : ''
Trimmed(u) == IF u.isStr THEN Slice(Trim(u.s), NameLimit) ELSE <<>>

JsStr(s) == [isStr |-> TRUE, s |-> s]
LongName == [i \in 1..(NameLimit + 2) |-> IF i = 1 THEN " " ELSE "a"]

ProfileInputs ==
  { [isStr |-> FALSE, s |-> <<>>],
    JsStr(<<>>), JsStr(<<" ">>), JsStr(<<" ", "a", " ">>), JsStr(<<"b">>),
    JsStr(LongName) }

\* `${socket.id}${trimmed}`: the string the colour is derived from
IdStr(c) == <<ToString(c)>>

generateColorFromId(s) == s

\* ------------------------------------------------------------- gateway
RECURSIVE IndexOf(_, _, _)
IndexOf(seq, x, i) == IF i > Len(seq) THEN 0
                      ELSE IF seq[i] = x THEN i ELSE IndexOf(seq, x, i + 1)

\* SELECT * FROM users WHERE username = $1  (0: no row)
getUserByUsername(username) == IndexOf(users, username, 1)

\* SELECT * FROM rooms WHERE name = $1  (0: no row)
getRoomByName(roomName) == IndexOf(rooms, roomName, 1)

\* ids of the rows of a room, oldest first
RECURSIVE RoomRows(_, _)
RoomRows(roomId, i) ==
  IF i > Len(messages) THEN <<>>
  ELSE (IF messages[i].room_id = roomId THEN <<i>> ELSE <<>>)
       \o RoomRows(roomId, i + 1)

\* ORDER BY created_at ASC LIMIT $2: the oldest rows
getMessagesByRoomOldest(roomId, limit) ==
  LET all == RoomRows(roomId, 1)
  IN IF Len(all) <= limit THEN all ELSE SubSeq(all, 1, limit)

\* ORDER BY created_at DESC LIMIT $2, then reversed
getMessagesByRoom(roomId, limit) ==
  LET all == RoomRows(roomId, 1)
  IN IF Len(all) <= limit THEN all
     ELSE SubSeq(all, Len(all) - limit + 1, Len(all))

\* --------------------------------------------------------------- sockets
Open == {c \in Conns : status[c] = "open"}

Members(roomId) == {c \in Open : roomId \in groups[c]}

\* an emission by a handler of socket `from` that reaches the connections `to`
Emit(ev, from, to, data) == [ev |-> ev, from |-> from, to |-> to, data |-> data]

\* socket.emit
ToSelf(c) == {c} \cap Open
\* io.emit
ToAll == Open
\* socket.broadcast.emit
ToOthers(c) == Open \ {c}
\* socket.to(room).emit
ToRoomOthers(c, roomId) == Members(roomId) \ {c}
\* io.to(room).emit
ToRoom(roomId) == Members(roomId)

\* ----------------------------------------------------------------- maps
MapSet(m, k, v) == [x \in DOMAIN m \cup {k} |-> IF x = k THEN v ELSE m[x]]
\* a delete that leaves the entry in place
MapDeleteKeeps(m, k) == m
MapDelete(m, k) == [x \in DOMAIN m \ {k} |-> m[x]]
Empty == [x \in {} |-> 0]

NewPlayer == [position |-> Null, rotation |-> Null, username |-> Null, color |-> Null]

\* ---------------------------------------------------------------- tasks
\* a suspended invocation of the join or of the message handler: its
\* position, its socket, its parameters and local variables; req is the
\* arrival number of a message event (0 for a join)
NewTask(kind, pc, c) ==
  [kind |-> kind, pc |-> pc, conn |-> c, req |-> 0, username |-> "",
   roomName |-> "", userId |-> 0, roomId |-> 0, text |-> "", msgId |-> 0,
   list |-> <<>>, pre |-> {}]

Init ==
  /\ status = [c \in Conns |-> "new"]
  /\ activePlayers = Empty
  /\ activeUsers = Empty
  /\ groups = [c \in Conns |-> {}]
  /\ users = <<>>
  /\ rooms = <<"general">>
  /\ messages = <<>>
  /\ tasks = EmptyBag
  /\ events = 0
  /\ fails = 0
  /\ bcast = <<>>
  /\ emits = <<>>

\* ------------------------------------------------------------ connection
\* io.on('connection')
Connect(c) ==
  /\ status[c] = "new"
  /\ status' = [status EXCEPT ![c] = "open"]
  /\ activePlayers' = MapSet(activePlayers, c, NewPlayer)
  /\ LET snapshot == {d \in DOMAIN activePlayers' : activePlayers'[d].position # Null}
         open == Open \cup {c}
     IN emits' = << Emit("existingPlayers", c, {c}, snapshot),
                    Emit("activePlayerCount", c, open, Cardinality(DOMAIN activePlayers')) >>
  /\ UNCHANGED <<activeUsers, groups, users, rooms, messages, tasks, events, fails, bcast>>

\* the colour derived again at every profile event
ProfileColorFresh(current, c, trimmed) == generateColorFromId(IdStr(c) \o trimmed)

\* current.color || generateColorFromId(`${socket.id}${trimmed}`)
ProfileColor(current, c, trimmed) ==
  IF current.color # Null THEN current.color
  ELSE generateColorFromId(IdStr(c) \o trimmed)

\* an entry built without the spread of the current one
ProfileReplace(current, trimmed, color) ==
  [NewPlayer EXCEPT !.username = trimmed, !.color = color]

\* {...current, username: trimmed, color}
ProfileMerge(current, trimmed, color) ==
  [current EXCEPT !.username = trimmed, !.color = color]

\* socket.on('playerProfile')
PlayerProfile(c, u) ==
  /\ status[c] = "open"
  /\ LET trimmed == Trimmed(u)
         current == IF c \in DOMAIN activePlayers THEN activePlayers[c]
                    ELSE [position |-> Null, rotation |-> Null,
                          username |-> Null, color |-> Null]
         color == ProfileColor(current, c, trimmed)
         updated == ProfileMerge(current, trimmed, color)
         payload == [id |-> c, username |-> trimmed, color |-> color]
     IN IF trimmed = <<>>
        THEN /\ emits' = << Emit("playerProfileAck", c, ToSelf(c), [error |-> "Name is required"]) >>
             /\ UNCHANGED activePlayers
        ELSE /\ activePlayers' = MapSet(activePlayers, c, updated)
             /\ emits' = << Emit("playerProfileAck", c, ToSelf(c), payload),
                            Emit("playerProfileUpdated", c, ToOthers(c), payload) >>
  /\ events' = events + 1
  /\ UNCHANGED <<status, activeUsers, groups, users, rooms, messages, tasks, fails, bcast>>

\* io.emit in place of socket.broadcast.emit
playerUpdatedToAll(c) == ToAll

\* the recipients of socket.broadcast.emit('playerUpdated')
playerUpdatedTo(c) == ToOthers(c)

\* a handler that reports the frame it drops
DroppedFrameEmitsError(c) ==
  << Emit("error", c, ToSelf(c), [message |-> "Invalid update", req |-> 0]) >>

\* what the handler emits for a frame it drops: it returns at once
DroppedFrameEmits(c) == <<>>

\* socket.on('playerUpdate')
PlayerUpdate(c, payload) ==
  /\ status[c] = "open"
  /\ IF ~payload.present \/ payload.position = <<>> \/ payload.rotation = <<>>
     THEN /\ emits' = DroppedFrameEmits(c)
          /\ UNCHANGED activePlayers
     ELSE LET position == Sanitize(payload.position)
              rotation == Sanitize(payload.rotation)
              existing == IF c \in DOMAIN activePlayers THEN activePlayers[c]
                          ELSE [position |-> Null, rotation |-> Null,
                                username |-> Null, color |-> Null]
              updated == [existing EXCEPT !.position = position, !.rotation = rotation]
          IN /\ activePlayers' = MapSet(activePlayers, c, updated)
             /\ emits' = << Emit("playerUpdated", c, playerUpdatedTo(c),
                                 [id |-> c, position |-> position, rotation |-> rotation,
                                  username |-> updated.username, color |-> updated.color]) >>
  /\ events' = events + 1
  /\ UNCHANGED <<status, activeUsers, groups, users, rooms, messages, tasks, fails, bcast>>

\* socket.broadcast.emit in place of socket.to(room).emit
userLeftToEveryone(c, roomId) == ToOthers(c)

\* the recipients of socket.to(`room-${userData.roomId}`).emit('userLeft')
userLeftTo(c, roomId) == ToRoomOthers(c, roomId)

\* the transport closes the socket (it leaves every room), then
\* socket.on('disconnect') runs
Disconnect(c) ==
  /\ status[c] = "open"
  /\ status' = [status EXCEPT ![c] = "closed"]
  /\ groups' = [groups EXCEPT ![c] = {}]
  /\ activePlayers' = MapDelete(activePlayers, c)
  /\ activeUsers' = MapDelete(activeUsers, c)
  /\ LET hadPlayer == c \in DOMAIN activePlayers
         open == Open \ {c}
         gone == IF hadPlayer
                 THEN << Emit("playerDisconnected", c, open, [id |-> c]) >> ELSE <<>>
         count == << Emit("activePlayerCount", c, open, Cardinality(DOMAIN activePlayers')) >>
         left == IF c \in DOMAIN activeUsers
                 THEN << Emit("userLeft", c, userLeftTo(c, activeUsers[c].roomId),
                              [roomId |-> activeUsers[c].roomId,
                               username |-> activeUsers[c].username]) >>
                 ELSE <<>>
     IN emits' = gone \o count \o left
  /\ UNCHANGED <<users, rooms, messages, tasks, events, fails, bcast>>

\* ------------------------------------------------------------------ join
\* the room ids of the session of c: one, or none without a session
SessionRooms(c) == IF c \in DOMAIN activeUsers THEN {activeUsers[c].roomId} ELSE {}

Start(new) == tasks' = tasks (+) SetToBag({new})
Finish(t) == tasks' = tasks (-) SetToBag({t})
Update(t, new) == tasks' = (tasks (-) SetToBag({t})) (+) SetToBag({new})
CanStart == BagCardinality(tasks) < MaxTasks
Running == BagToSet(tasks)

\* socket.on('join'): the handler runs up to its first await
Join(c, username, roomName) ==
  /\ status[c] = "open"
  /\ CanStart
  /\ Start([NewTask("join", "J_getUser", c) EXCEPT
              !.username = username, !.roomName = roomName, !.pre = SessionRooms(c)])
  /\ events' = events + 1
  /\ emits' = <<>>
  /\ UNCHANGED <<status, activePlayers, activeUsers, groups, users, rooms,
                 messages, bcast, fails>>

\* a step of the gateway touches no Map, no group and no socket
Db == /\ emits' = <<>>
      /\ UNCHANGED <<status, activePlayers, activeUsers, groups, events, bcast>>

\* db.getUserByUsername(username) of join; not found: db.createUser is called
ExecJoinGetUser(t) ==
  /\ t.pc = "J_getUser"
  /\ LET id == getUserByUsername(t.username)
     IN Update(t, [t EXCEPT !.userId = id,
                            !.pc = IF id # 0 THEN "J_getRoom" ELSE "J_insUser"])
  /\ Db
  /\ UNCHANGED <<users, rooms, messages, fails>>

\* createUser: INSERT ... ON CONFLICT (username) DO NOTHING RETURNING *
ExecInsertUser(t) ==
  /\ t.pc = "J_insUser"
  /\ IF getUserByUsername(t.username) = 0
     THEN /\ users' = Append(users, t.username)
          /\ Update(t, [t EXCEPT !.userId = Len(users) + 1, !.pc = "J_getRoom"])
     ELSE /\ Update(t, [t EXCEPT !.pc = "J_selUser"])
          /\ UNCHANGED users
  /\ Db
  /\ UNCHANGED <<rooms, messages, fails>>

\* createUser: the row already existed, SELECT it
ExecSelectUser(t) ==
  /\ t.pc = "J_selUser"
  /\ Update(t, [t EXCEPT !.userId = getUserByUsername(t.username), !.pc = "J_getRoom"])
  /\ Db
  /\ UNCHANGED <<users, rooms, messages, fails>>

\* db.getRoomByName(roomName); not found: db.createRoom is called
ExecJoinGetRoom(t) ==
  /\ t.pc = "J_getRoom"
  /\ LET id == getRoomByName(t.roomName)
     IN Update(t, [t EXCEPT !.roomId = id,
                            !.pc = IF id # 0 THEN "J_install" ELSE "J_insRoom"])
  /\ Db
  /\ UNCHANGED <<users, rooms, messages, fails>>

\* a plain INSERT on a table without the unique constraint
createRoomNeverConflicts(roomName) == FALSE

\* ON CONFLICT (name): a row with that name exists
createRoomConflict(roomName) == getRoomByName(roomName) # 0

\* createRoom: INSERT ... ON CONFLICT (name) DO NOTHING RETURNING *
ExecInsertRoom(t) ==
  /\ t.pc = "J_insRoom"
  /\ IF ~createRoomConflict(t.roomName)
     THEN /\ rooms' = Append(rooms, t.roomName)
          /\ Update(t, [t EXCEPT !.roomId = Len(rooms) + 1, !.pc = "J_install"])
     ELSE /\ Update(t, [t EXCEPT !.pc = "J_selRoom"])
          /\ UNCHANGED rooms
  /\ Db
  /\ UNCHANGED <<users, messages, fails>>

\* createRoom: the row already existed, SELECT it
ExecSelectRoom(t) ==
  /\ t.pc = "J_selRoom"
  /\ Update(t, [t EXCEPT !.roomId = getRoomByName(t.roomName), !.pc = "J_install"])
  /\ Db
  /\ UNCHANGED <<users, rooms, messages, fails>>

\* socket.join without the socket.leave of the previous room
LeaveJoinKeepsPrevious(mine, hasPrevious, previousRoom, roomId, joins) ==
  mine \cup (IF joins THEN {roomId} ELSE {})

\* the room groups of the socket after socket.leave(previous), socket.join(room)
LeaveJoin(mine, hasPrevious, previousRoom, roomId, joins) ==
  ((IF hasPrevious THEN mine \ {previousRoom} ELSE mine)
     \cup (IF joins THEN {roomId} ELSE {}))

\* join resumes with user and room: leave the previous room, join the new
\* one, install the session, call db.getMessagesByRoom.  socket.join of a
\* socket that is already closed is a no-op in socket.io >= 4.5.2 and still
\* registers the id in the adapter before that.
JoinInstall(t) ==
  /\ t.pc = "J_install"
  /\ LET c == t.conn
         hasPrevious == c \in DOMAIN activeUsers /\ activeUsers[c].roomId # 0
         previousRoom == IF c \in DOMAIN activeUsers THEN activeUsers[c].roomId ELSE 0
     IN /\ \E joins \in BOOLEAN :
              /\ status[c] = "open" => joins
              /\ groups' = [groups EXCEPT ![c] =
                    LeaveJoin(@, hasPrevious, previousRoom, t.roomId, joins)]
        /\ activeUsers' = MapSet(activeUsers, c,
              [username |-> t.username, userId |-> t.userId,
               roomId |-> t.roomId, roomName |-> t.roomName])
        /\ Update(t, [t EXCEPT !.pc = "J_getMsgs"])
        /\ emits' = <<>>
  /\ UNCHANGED <<status, activePlayers, users, rooms, messages, events, bcast, fails>>

\* db.getMessagesByRoom(room.id)
ExecGetMessages(t) ==
  /\ t.pc = "J_getMsgs"
  /\ Update(t, [t EXCEPT !.list = getMessagesByRoom(t.roomId, HistoryLimit),
                         !.pc = "J_emitMsgs"])
  /\ Db
  /\ UNCHANGED <<users, rooms, messages, fails>>

\* socket.broadcast.emit in place of socket.to(room).emit
userJoinedToEveryone(t) == ToOthers(t.conn)

\* the recipients of socket.to(`room-${room.id}`).emit('userJoined')
userJoinedTo(t) == ToRoomOthers(t.conn, t.roomId)

\* join resumes with the history: emit it, notify the room, call db.getAllRooms
JoinEmitMessages(t) ==
  /\ t.pc = "J_emitMsgs"
  /\ emits' = << Emit("messages", t.conn, ToSelf(t.conn),
                      [roomId |-> t.roomId, list |-> t.list]),
                 Emit("userJoined", t.conn, userJoinedTo(t),
                      [roomId |-> t.roomId, username |-> t.username]) >>
  /\ Update(t, [t EXCEPT !.pc = "J_getRooms", !.list = <<>>])
  /\ UNCHANGED <<status, activePlayers, activeUsers, groups, users, rooms,
                 messages, events, bcast, fails>>

\* db.getAllRooms()
ExecGetAllRooms(t) ==
  /\ t.pc = "J_getRooms"
  /\ Update(t, [t EXCEPT !.list = rooms, !.pc = "J_emitRooms"])
  /\ Db
  /\ UNCHANGED <<users, rooms, messages, fails>>

\* join resumes with the room list: io.emit('rooms'), the handler returns
JoinEmitRooms(t) ==
  /\ t.pc = "J_emitRooms"
  /\ emits' = << Emit("rooms", t.conn, ToAll, t.list) >>
  /\ Finish(t)
  /\ UNCHANGED <<status, activePlayers, activeUsers, groups, users, rooms,
                 messages, events, bcast, fails>>

\* --------------------------------------------------------------- message
\* the session check without its return: the handler goes on, throws on
\* userData.userId and its catch block emits a second error
NoSessionEmitsNoReturn(c) ==
  << Emit("error", c, ToSelf(c), [message |-> "You must join a room first", req |-> 0]),
     Emit("error", c, ToSelf(c), [message |-> "Failed to send message", req |-> 0]) >>

\* what the message handler emits for a socket without a session
NoSessionEmits(c) ==
  << Emit("error", c, ToSelf(c), [message |-> "You must join a room first", req |-> 0]) >>

\* socket.on('message'): the handler runs up to its first await
Message(c, text) ==
  /\ status[c] = "open"
  /\ IF c \notin DOMAIN activeUsers
     THEN /\ emits' = NoSessionEmits(c)
          /\ UNCHANGED tasks
     ELSE /\ CanStart
          /\ Start([NewTask("message", "M_save", c) EXCEPT
                      !.req = events + 1,
                      !.username = activeUsers[c].username,
                      !.roomName = activeUsers[c].roomName,
                      !.userId = activeUsers[c].userId,
                      !.roomId = activeUsers[c].roomId,
                      !.text = text])
          /\ emits' = <<>>
  /\ events' = events + 1
  /\ UNCHANGED <<status, activePlayers, activeUsers, groups, users, rooms,
                 messages, bcast, fails>>

\* db.saveMessage(userId, roomId, message)
ExecSaveMessage(t) ==
  /\ t.pc = "M_save"
  /\ messages' = Append(messages, [user_id |-> t.userId, room_id |-> t.roomId,
                                   message |-> t.text, req |-> t.req])
  /\ Update(t, [t EXCEPT !.msgId = Len(messages) + 1, !.pc = "M_getUser"])
  /\ Db
  /\ UNCHANGED <<users, rooms, fails>>

\* db.getUserByUsername(userData.username) of message
ExecMessageGetUser(t) ==
  /\ t.pc = "M_getUser"
  /\ Update(t, [t EXCEPT !.userId = getUserByUsername(t.username), !.pc = "M_bcast"])
  /\ Db
  /\ UNCHANGED <<users, rooms, messages, fails>>

\* a handler that drops the broadcast when its socket has gone
newMessageToUnlessClosed(t) == IF status[t.conn] = "open" THEN ToRoom(t.roomId) ELSE {}

\* the recipients of io.to(`room-${userData.roomId}`).emit('newMessage')
newMessageTo(t) == ToRoom(t.roomId)

\* a catch block that only logs
CatchEmitsNothing(t) == <<>>

\* the catch block of join / message (req tells which invocation failed)
CatchEmits(t) ==
  << Emit("error", t.conn, ToSelf(t.conn),
          [message |-> IF t.kind = "join" THEN "Failed to join room"
                       ELSE "Failed to send message",
           req |-> t.req]) >>

\* message resumes with the saved row and the user: broadcast to the room
\* (user.username throws when no row came back)
MessageBroadcast(t) ==
  /\ t.pc = "M_bcast"
  /\ IF t.userId # 0
     THEN /\ emits' = << Emit("newMessage", t.conn, newMessageTo(t),
                              [id |-> t.msgId, roomId |-> t.roomId,
                               username |-> t.username, message |-> t.text,
                               req |-> t.req]) >>
          /\ bcast' = Append(bcast, [roomId |-> t.roomId, req |-> t.req, id |-> t.msgId])
     ELSE /\ emits' = CatchEmits(t)
          /\ UNCHANGED bcast
  /\ Finish(t)
  /\ UNCHANGED <<status, activePlayers, activeUsers, groups, users, rooms,
                 messages, events, fails>>

\* ---------------------------------------------------------------- errors
Pending == {"J_getUser", "J_insUser", "J_selUser", "J_getRoom", "J_insRoom",
            "J_selRoom", "J_getMsgs", "J_getRooms", "M_save", "M_getUser"}

\* a pending gateway call rejects and the handler resumes in its catch block
\* (the rejection itself changes nothing, so it is taken at the moment the
\* handler resumes)
Reject(t) ==
  /\ t.pc \in Pending
  /\ fails < MaxFails
  /\ fails' = fails + 1
  /\ emits' = CatchEmits(t)
  /\ Finish(t)
  /\ UNCHANGED <<status, activePlayers, activeUsers, groups, users, rooms,
                 messages, events, bcast>>

\* ------------------------------------------------------ absent payloads
\* the handlers whose parameter is a destructuring pattern: ({ username }),
\* ({ username, roomName }), ({ message })
Destructured == {"playerProfile", "join", "message"}

\* the process exits on an uncaught exception: its Maps, its sockets and its
\* suspended handlers are gone, the database stays
Exit ==
  /\ status' = [c \in Conns |-> "crashed"]
  /\ activePlayers' = Empty
  /\ activeUsers' = Empty
  /\ groups' = [c \in Conns |-> {}]
  /\ tasks' = EmptyBag
  /\ emits' = <<>>

\* an event of a destructuring handler arrives without a payload object:
\* binding the parameter throws a TypeError before the body runs.  In the
\* synchronous handler it is an uncaught exception and the process exits; in
\* an async handler it rejects the promise outside the try block, which ends
\* the process on Node >= 15 and is only logged by older versions.
NoPayload(c, ev) ==
  /\ status[c] = "open"
  /\ \E exits \in BOOLEAN :
        /\ ev = "playerProfile" => exits
        /\ IF exits THEN Exit
           ELSE /\ emits' = <<>>
                /\ UNCHANGED <<status, activePlayers, activeUsers, groups, tasks>>
  /\ events' = events + 1
  /\ UNCHANGED <<users, rooms, messages, fails, bcast>>

\* ----------------------------------------------------------------- specs
TaskStep(t) ==
  \/ ExecJoinGetUser(t) \/ ExecInsertUser(t) \/ ExecSelectUser(t)
  \/ ExecJoinGetRoom(t) \/ ExecInsertRoom(t) \/ ExecSelectRoom(t)
  \/ JoinInstall(t) \/ ExecGetMessages(t) \/ JoinEmitMessages(t)
  \/ ExecGetAllRooms(t) \/ JoinEmitRooms(t)
  \/ ExecSaveMessage(t) \/ ExecMessageGetUser(t) \/ MessageBroadcast(t)
  \/ Reject(t)

Lifecycle == \E c \in Conns : Connect(c) \/ Disconnect(c)

ChatEvent ==
  \E c \in Conns :
     \/ \E u \in Usernames, r \in RoomNames : Join(c, u, r)
     \/ \E x \in Texts : Message(c, x)

PresenceEvent ==
  \E c \in Conns :
     \/ \E u \in ProfileInputs : PlayerProfile(c, u)
     \/ \E p \in Payloads : PlayerUpdate(c, p)

Next ==
  \/ Lifecycle
  \/ events < MaxEvents /\ ChatEvent
  \/ events < MaxEvents /\ PresenceEvent
  \/ events < MaxEvents /\ \E c \in Conns, ev \in Destructured : NoPayload(c, ev)
  \/ \E t \in Running : TaskStep(t)

Spec == Init /\ [][Next]_vars

\* the chat handlers alone, for events that carry their payload object
NextChat ==
  \/ Lifecycle
  \/ events < MaxChatEvents /\ ChatEvent
  \/ \E t \in Running : TaskStep(t)

ChatSpec == Init /\ [][NextChat]_vars

\* the presence handlers alone, for profile events that carry their payload
\* object
NextPresence ==
  \/ Lifecycle
  \/ events < MaxPresenceEvents /\ PresenceEvent

PresenceSpec == Init /\ [][NextPresence]_vars

\* the chat handlers when every gateway call completes or fails and every
\* continuation is eventually run by the event loop
ChatLive == ChatSpec /\ WF_vars(\E t \in Running : TaskStep(t))

\* the tables are created IF NOT EXISTS and keep the rows of earlier runs of
\* the server: one row more than the history limit in room 1 ("general"),
\* one row in room 2 ("lobby")
StoredRows ==
  [i \in 1..(HistoryLimit + 2) |->
     [user_id |-> 1, room_id |-> IF i = 2 THEN 2 ELSE 1, message |-> "hi", req |-> 0]]

\* the server starts on an empty or on a populated database
HistoryInit ==
  /\ status = [c \in Conns |-> "new"]
  /\ activePlayers = Empty
  /\ activeUsers = Empty
  /\ groups = [c \in Conns |-> {}]
  /\ \/ /\ users = <<>>
        /\ rooms = <<"general">>
        /\ messages = <<>>
     \/ /\ users = <<"alice">>
        /\ rooms = <<"general", "lobby">>
        /\ messages = StoredRows
  /\ tasks = EmptyBag
  /\ events = 0
  /\ fails = 0
  /\ bcast = <<>>
  /\ emits = <<>>

NextHistory ==
  \/ Lifecycle
  \/ events < MaxHistoryEvents /\ ChatEvent
  \/ \E t \in Running : TaskStep(t)

HistorySpec == HistoryInit /\ [][NextHistory]_vars

\* ---------------------------------------------------------------- claims
\* the handler invocation t takes this step / has this record after it
Stepped(t) == CopiesIn(t, tasks') < CopiesIn(t, tasks)
Arrived(t) == CopiesIn(t, tasks') > CopiesIn(t, tasks)

\* C1: in every reachable state every live connection has at most one
\* session and is a member of exactly the room group of its session's roomId,
\* of no group without a session; after a join to room B of a connection
\* whose session was in room A it is in B's group only.
C1_SingleRoomMembership ==
  \A c \in Conns : status[c] # "closed" => groups[c] = SessionRooms(c)

\* a join of a connection whose session was in another room has installed
\* its session while a second join of the same connection is suspended
C1_Witness ==
  \E t \in Running :
     /\ t.kind = "join" /\ t.pc = "J_getMsgs"
     /\ t.pre # {} /\ t.pre # {t.roomId}
     /\ status[t.conn] = "open"
     /\ groups[t.conn] = {t.roomId}
     /\ t.conn \in DOMAIN activeUsers /\ activeUsers[t.conn].roomId = t.roomId
     /\ \E u \in Running : u # t /\ u.kind = "join" /\ u.conn = t.conn

\* C2: for every room the chatMessage broadcasts are made in the order in
\* which the message events of that room were received.
C2_BroadcastInArrivalOrder ==
  \A i, j \in DOMAIN bcast :
     (i < j /\ bcast[i].roomId = bcast[j].roomId) => bcast[i].req < bcast[j].req

\* C3: once a connection's disconnect has been processed, the Session Table
\* and the Presence Table hold no entry for it and it is in no room group, in
\* that state and in every later one.
C3_NothingLeftAfterDisconnect ==
  \A c \in Conns :
     status[c] = "closed" =>
        /\ c \notin DOMAIN activeUsers
        /\ c \notin DOMAIN activePlayers
        /\ groups[c] = {}

\* a join handler t ends in its catch block in this step
JoinFails(t) ==
  /\ t.kind = "join"
  /\ BagIn(t, tasks)
  /\ tasks' = tasks (-) SetToBag({t})
  /\ fails' = fails + 1

\* C4: when a gateway call of a join fails, the requester gets an error event
\* and the connection's session and room-group membership are what they were
\* immediately before the join event was received.
C4_FailedJoinChangesNothing ==
  [][\A t \in Running :
        JoinFails(t) =>
           /\ status[t.conn] = "open" =>
                 emits' = << Emit("error", t.conn, {t.conn},
                                  [message |-> "Failed to join room", req |-> 0]) >>
           /\ (IF t.conn \in DOMAIN activeUsers'
               THEN {activeUsers'[t.conn].roomId} ELSE {}) = t.pre
           /\ groups'[t.conn] = t.pre]_vars

\* C5: a message event of a connection without a session produces exactly one
\* error event, to that connection: nothing is persisted, no handler is left
\* running, nothing is broadcast, and the tables and the room groups are
\* unchanged.
C5_MessageWithoutSession ==
  [][\A c \in Conns :
        (c \notin DOMAIN activeUsers /\ \E x \in Texts : Message(c, x)) =>
           /\ emits' = << [ev |-> "error", from |-> c, to |-> {c},
                           data |-> [message |-> "You must join a room first",
                                     req |-> 0]] >>
           /\ UNCHANGED <<activeUsers, activePlayers, groups, users, rooms,
                          messages, tasks, bcast>>]_vars

\* a connected socket that never joined has just been told to join first,
\* while another connection has a session
C5_Witness ==
  \E c \in Conns :
     /\ status[c] = "open"
     /\ c \notin DOMAIN activeUsers
     /\ DOMAIN activeUsers # {}
     /\ Len(emits) >= 1
     /\ emits[1].ev = "error" /\ emits[1].from = c /\ emits[1].to = {c}
     /\ emits[1].data.message = "You must join a room first"

\* C6: the chatMessage of an accepted message of connection c is delivered to
\* every connection in the room group of the room it was sent in, and c
\* itself is among the recipients, whatever other events of c occur while
\* the gateway calls of the message are in flight.
C6_SenderReceivesOwnMessage ==
  \A i \in DOMAIN emits :
     emits[i].ev = "newMessage" =>
        /\ emits[i].to = Members(emits[i].data.roomId)
        /\ status[emits[i].from] = "open" => emits[i].from \in emits[i].to

\* C7: no playerUpdated caused by a playerUpdate of a connection is delivered
\* to that connection, and every other connected connection receives it.
C7_NoEchoOfOwnPosition ==
  \A i \in DOMAIN emits :
     emits[i].ev = "playerUpdated" =>
        /\ emits[i].from \notin emits[i].to
        /\ emits[i].to = Open \ {emits[i].from}

\* a position update has just been delivered to another connection
C7_Witness ==
  \E i \in DOMAIN emits :
     /\ emits[i].ev = "playerUpdated"
     /\ emits[i].to # {}
     /\ status[emits[i].from] = "open"

\* C8: when two connections run the room get-or-create of join for one room
\* name concurrently, one row with that name exists afterwards and every
\* session installed for that name carries the id of that row.
C8_OneRoomPerName ==
  /\ \A i, j \in DOMAIN rooms : rooms[i] = rooms[j] => i = j
  /\ \A c \in DOMAIN activeUsers :
        /\ activeUsers[c].roomId # 0
        /\ activeUsers[c].roomId = getRoomByName(activeUsers[c].roomName)

\* one connection has its session in the room its join created and the
\* INSERT of the join of another connection has hit the conflict
C8_Witness ==
  \E t \in Running :
     /\ t.kind = "join" /\ t.pc = "J_selRoom" /\ t.roomName = "lobby"
     /\ \E c \in DOMAIN activeUsers :
           /\ c # t.conn
           /\ activeUsers[c].roomName = "lobby"
           /\ activeUsers[c].roomId = Len(rooms)

\* C9: a message whose sender disconnects while its gateway calls are in
\* flight is still eventually broadcast to the connections that remain in the
\* room group, unless one of its gateway calls fails.
C9_InFlightMessageStillBroadcast ==
  (\E t \in Running : t.kind = "message" /\ status[t.conn] = "closed")
  ~> (\E i \in DOMAIN emits :
         /\ status[emits[i].from] = "closed"
         /\ \/ /\ emits[i].ev = "newMessage"
               /\ emits[i].to = Members(emits[i].data.roomId)
            \/ /\ emits[i].ev = "error"
               /\ emits[i].data.message = "Failed to send message")

\* the message of a connection that has gone has just reached a remaining
\* member of its room
C9_Witness ==
  \E i \in DOMAIN emits :
     /\ emits[i].ev = "newMessage"
     /\ status[emits[i].from] = "closed"
     /\ emits[i].to # {}

\* C10: once set, the colour of a connection's player entry never changes,
\* and every later profile event of that connection is acknowledged with it.
C10_ColorAssignedOnce ==
  [][\A c \in DOMAIN activePlayers :
        activePlayers[c].color # Null =>
           /\ c \in DOMAIN activePlayers' =>
                 activePlayers'[c].color = activePlayers[c].color
           /\ \A i \in DOMAIN emits' :
                 (/\ emits'[i].ev = "playerProfileAck"
                  /\ emits'[i].from = c
                  /\ "color" \in DOMAIN emits'[i].data)
                    => emits'[i].data.color = activePlayers[c].color]_vars

\* a renamed and positioned connection has just been acknowledged with the
\* colour of its first name
C10_Witness ==
  \E c \in DOMAIN activePlayers :
     /\ activePlayers[c].color # Null
     /\ activePlayers[c].color # IdStr(c) \o activePlayers[c].username
     /\ activePlayers[c].position # Null
     /\ Len(emits) >= 1
     /\ emits[1].ev = "playerProfileAck" /\ emits[1].from = c
     /\ "color" \in DOMAIN emits[1].data
     /\ emits[1].data.color = activePlayers[c].color

\* C11: a playerUpdate whose position object is present with a non-numeric x
\* and no y or z, with a complete numeric rotation, is dropped: the sender's
\* player entry is unchanged and no playerUpdated is emitted.
C11_NonNumericPositionDropped ==
  [][\A c \in Conns :
        PlayerUpdate(c, NonNumericFrame) =>
           /\ UNCHANGED activePlayers
           /\ \A i \in DOMAIN emits' : emits'[i].ev # "playerUpdated"]_vars

\* C12: a playerUpdate whose payload is absent, or has no position or no
\* rotation, changes nothing: the player table is unchanged and no event at
\* all is emitted, neither a broadcast nor an error or acknowledgment.
C12_MalformedUpdateIsSilent ==
  [][\A c \in Conns, p \in Payloads :
        (/\ ~p.present \/ p.position = <<>> \/ p.rotation = <<>>
         /\ PlayerUpdate(c, p)) =>
           /\ UNCHANGED activePlayers
           /\ emits' = <<>>]_vars

\* a frame has just been dropped (every other step of the presence handlers
\* emits something) while a positioned player and a second connection exist
C12_Witness ==
  /\ events > 0
  /\ emits = <<>>
  /\ Cardinality(Open) > 1
  /\ \E c \in DOMAIN activePlayers : activePlayers[c].position # Null

\* C13: a userJoined for room R is delivered only to connections that are
\* members of R's room group, by a join of their own that has installed their
\* session in R, and never to the joining connection itself.
C13_UserJoinedToRoomOnly ==
  \A i \in DOMAIN emits :
     emits[i].ev = "userJoined" =>
        /\ emits[i].from \notin emits[i].to
        /\ \A d \in emits[i].to :
              /\ status[d] = "open"
              /\ emits[i].data.roomId \in groups[d]
              /\ d \in DOMAIN activeUsers
              /\ activeUsers[d].roomId = emits[i].data.roomId

\* a member of the room has just been told of a join
C13_Witness ==
  \E i \in DOMAIN emits :
     /\ emits[i].ev = "userJoined"
     /\ emits[i].to # {}
     /\ status[emits[i].from] = "open"

\* C14: when a connection that has a session and has never sent a profile
\* event disconnects, no playerDisconnected is emitted and userLeft goes to
\* the remaining members of its room.
C14_NoRemovalWithoutProfile ==
  [][\A c \in DOMAIN activeUsers :
        (/\ c \in DOMAIN activePlayers
         /\ activePlayers[c].username = Null
         /\ Disconnect(c)) =>
           /\ \A i \in DOMAIN emits' : emits'[i].ev # "playerDisconnected"
           /\ \E i \in DOMAIN emits' :
                 /\ emits'[i].ev = "userLeft"
                 /\ emits'[i].to = Members(activeUsers[c].roomId) \ {c}]_vars

\* list holds, oldest first, the newest HistoryLimit rows of the room (all of
\* them when there are no more than that) and no row of another room
RecentRowsOf(list, roomId) ==
  LET mine == {k \in DOMAIN messages : messages[k].room_id = roomId}
      got == {list[i] : i \in DOMAIN list}
  IN /\ got \subseteq mine
     /\ \A i, j \in DOMAIN list : i < j => list[i] < list[j]
     /\ Len(list) <= HistoryLimit
     /\ Len(list) = IF Cardinality(mine) > HistoryLimit
                    THEN HistoryLimit ELSE Cardinality(mine)
     /\ \A k \in mine \ got : \A i \in DOMAIN list : k < list[i]

\* C15: the history a join to room R obtains holds only rows persisted for R,
\* oldest first, the HistoryLimit newest when R has more than that, and it is
\* emitted as 'messages' to the joining socket only.
C15_HistoryIsRecentWindow ==
  [][\A t \in BagToSet(tasks) \cup BagToSet(tasks') :
        /\ (Arrived(t) /\ t.pc = "J_emitMsgs") => RecentRowsOf(t.list, t.roomId)
        /\ (Stepped(t) /\ t.pc = "J_emitMsgs") =>
              /\ \E i \in DOMAIN emits' : emits'[i].ev = "messages"
              /\ \A i \in DOMAIN emits' :
                    emits'[i].ev = "messages" =>
                       /\ emits'[i].to \subseteq {t.conn}
                       /\ emits'[i].data.list = t.list
                       /\ emits'[i].data.roomId = t.roomId]_vars

\* a joiner has just received the newest HistoryLimit rows of a room that
\* holds more
C15_Witness ==
  \E i \in DOMAIN emits :
     /\ emits[i].ev = "messages"
     /\ emits[i].to = {emits[i].from}
     /\ Len(emits[i].data.list) = HistoryLimit
     /\ emits[i].data.list[1] > 1
     /\ Cardinality({k \in DOMAIN messages :
                       messages[k].room_id = emits[i].data.roomId}) > HistoryLimit

\* C16: no inbound event, with or without its payload object or fields, and
\* no gateway failure makes the process exit.
C16_NoEventEndsTheProcess ==
  \A c \in Conns : status[c] # "crashed"

\* C17: when every gateway call completes or fails, no join or message
\* handler stays suspended for ever, and none ends without its success output
\* (the history to the joiner, the newMessage broadcast of the message) or an
\* error event to the socket that sent the event.
C17_HandlersEndWithOutput ==
  /\ <>[](tasks = EmptyBag)
  /\ [][\A t \in Running :
          /\ (Stepped(t) /\ t.pc = "J_emitMsgs") =>
                \E i \in DOMAIN emits' :
                   /\ emits'[i].ev = "messages"
                   /\ emits'[i].to = {t.conn} \cap Open
          /\ (Stepped(t) /\ BagCardinality(tasks') < BagCardinality(tasks)) =>
                \/ \E i \in DOMAIN emits' :
                      /\ emits'[i].ev = "error"
                      /\ emits'[i].from = t.conn
                      /\ emits'[i].to = {t.conn} \cap Open
                      /\ emits'[i].data.req = t.req
                \/ /\ t.kind = "join"
                   /\ t.pc = "J_emitRooms"
                \/ /\ t.kind = "message"
                   /\ \E i \in DOMAIN emits' :
                         /\ emits'[i].ev = "newMessage"
                         /\ emits'[i].data.req = t.req
                         /\ emits'[i].to = Members(t.roomId)]_vars

\* every handler has ended, the last one with an error event that reached its
\* socket after a gateway failure, and a message has been persisted
C17_Witness ==
  /\ tasks = EmptyBag
  /\ fails > 0
  /\ messages # <<>>
  /\ \E i \in DOMAIN emits : emits[i].ev = "error" /\ emits[i].to # {}

\* the positions a frame with three numeric position fields leaves
NumericPositions ==
  {Sanitize(p.position) : p \in {q \in Payloads :
      /\ q.present /\ q.position # <<>> /\ q.rotation # <<>>
      /\ \A k \in 1..3 : q.position[k].tag = "num"}}

\* C18: the existingPlayers sent at connect goes to the connecting socket
\* only and holds exactly the entries of the player table whose position is
\* not null: never the connecting socket, never a closed one, never one whose
\* position does not come from a valid playerUpdate.
C18_SnapshotOfPositionedPlayers ==
  \A i \in DOMAIN emits :
     emits[i].ev = "existingPlayers" =>
        /\ emits[i].to = {emits[i].from}
        /\ emits[i].data =
              {d \in DOMAIN activePlayers : activePlayers[d].position # Null}
        /\ emits[i].from \notin emits[i].data
        /\ \A d \in emits[i].data :
              /\ status[d] = "open"
              /\ activePlayers[d].position \in NumericPositions

\* C19: the key set of the player table is the set of connected sockets, and
\* every connect and every disconnect emits one activePlayerCount, to all
\* connected sockets, with the number of sockets connected after it.
C19_CountOfConnected ==
  /\ [](DOMAIN activePlayers = Open)
  /\ [][\A c \in Conns :
          (Connect(c) \/ Disconnect(c)) =>
             LET open == {d \in Conns : status'[d] = "open"}
                 counts == {i \in DOMAIN emits' : emits'[i].ev = "activePlayerCount"}
             IN /\ Cardinality(counts) = 1
                /\ \A i \in counts :
                      /\ emits'[i].data = Cardinality(open)
                      /\ emits'[i].to = open]_vars

\* a disconnect has just told the remaining socket that one is connected
C19_Witness ==
  /\ \E c \in Conns : status[c] = "closed"
  /\ \E i \in DOMAIN emits :
        /\ emits[i].ev = "activePlayerCount"
        /\ emits[i].data = 1
        /\ emits[i].to # {}
        /\ status[emits[i].from] = "closed"

\* C20: every disconnect emits playerDisconnected to all other sockets; one
\* of a socket without a session emits no userLeft; one of a socket with a
\* session in room R also emits userLeft, with the data of that session, to
\* the other members of R and not to itself, and removes the session.
C20_DisconnectHalves ==
  [][\A c \in Conns :
        Disconnect(c) =>
           LET lefts == {i \in DOMAIN emits' : emits'[i].ev = "userLeft"}
           IN /\ \E i \in DOMAIN emits' :
                    /\ emits'[i].ev = "playerDisconnected"
                    /\ emits'[i].to = Open \ {c}
              /\ \A i \in DOMAIN emits' : emits'[i].ev # "error"
              /\ IF c \in DOMAIN activeUsers
                 THEN /\ Cardinality(lefts) = 1
                      /\ \A i \in lefts :
                            /\ emits'[i].to = Members(activeUsers[c].roomId) \ {c}
                            /\ emits'[i].data.username = activeUsers[c].username
                            /\ emits'[i].data.roomId = activeUsers[c].roomId
                      /\ c \notin DOMAIN activeUsers'
                 ELSE lefts = {}]_vars

\* a socket with a session has just left: the other socket, which is not in
\* its room, got playerDisconnected and no userLeft
C20_Witness ==
  \E i, j \in DOMAIN emits :
     /\ emits[i].ev = "playerDisconnected" /\ emits[i].to # {}
     /\ emits[j].ev = "userLeft" /\ emits[j].to = {}
     /\ \E d \in emits[i].to : d \in DOMAIN activeUsers

\* C21: a playerProfile changes only username, and color when it is unset,
\* of the sender's player entry and leaves its position and rotation; a
\* playerUpdate with position and rotation changes only position and
\* rotation and leaves username and color; neither changes the entry of
\* another connection or any session.  (The handler that ran is told by the
\* event it emits: every playerProfile is acknowledged, every accepted
\* playerUpdate is broadcast.)
C21_HandlersTouchTheirFieldsOnly ==
  [][\A c \in Conns :
        LET others == \A d \in Conns \ {c} :
                         /\ d \in DOMAIN activePlayers' <=> d \in DOMAIN activePlayers
                         /\ d \in DOMAIN activePlayers =>
                               activePlayers'[d] = activePlayers[d]
            ran(ev) == \E i \in DOMAIN emits' :
                          emits'[i].ev = ev /\ emits'[i].from = c
        IN /\ ran("playerProfileAck") =>
                 /\ c \in DOMAIN activePlayers /\ c \in DOMAIN activePlayers'
                 /\ activePlayers'[c].position = activePlayers[c].position
                 /\ activePlayers'[c].rotation = activePlayers[c].rotation
                 /\ activePlayers[c].color # Null =>
                       activePlayers'[c].color = activePlayers[c].color
                 /\ others
                 /\ UNCHANGED activeUsers
           /\ ran("playerUpdated") =>
                 /\ c \in DOMAIN activePlayers /\ c \in DOMAIN activePlayers'
                 /\ activePlayers'[c].username = activePlayers[c].username
                 /\ activePlayers'[c].color = activePlayers[c].color
                 /\ others
                 /\ UNCHANGED activeUsers]_vars

\* a positioned connection has just been given its name while a session
\* exists
C21_Witness ==
  /\ DOMAIN activeUsers # {}
  /\ \E i \in DOMAIN emits :
        /\ emits[i].ev = "playerProfileUpdated"
        /\ emits[i].from \in DOMAIN activePlayers
        /\ activePlayers[emits[i].from].position # Null
        /\ activePlayers[emits[i].from].username = emits[i].data.username

\* the coordinate the claim gives an input subfield: its numeric value when
\* it is a number or a numeral, 0 when it is missing or not numeric
Expected(v) == IF v.tag \in {"num", "numstr"} THEN v.n ELSE 0

\* C22: each of the six coordinates stored and broadcast by a playerUpdate
\* with position and rotation is the numeric value of the input subfield when
\* that is numeric and 0 when it is missing or not numeric.
C22_CoordinatesCoerced ==
  [][\A c \in Conns, p \in Payloads :
        (/\ p.present /\ p.position # <<>> /\ p.rotation # <<>>
         /\ PlayerUpdate(c, p)) =>
           LET position == [k \in 1..3 |-> Expected(p.position[k])]
               rotation == [k \in 1..3 |-> Expected(p.rotation[k])]
           IN /\ activePlayers'[c].position = position
              /\ activePlayers'[c].rotation = rotation
              /\ \A i \in DOMAIN emits' :
                    emits'[i].ev = "playerUpdated" =>
                       /\ emits'[i].data.position = position
                       /\ emits'[i].data.rotation = rotation]_vars

\* the pcs of a join that has not yet emitted its history
BeforeHistory == {"J_getUser", "J_insUser", "J_selUser", "J_getRoom", "J_insRoom",
                  "J_selRoom", "J_install", "J_getMsgs", "J_emitMsgs"}

\* C23: when the joins of a connection overlap, the history delivered last
\* is that of the room of its session: once no join of the connection has
\* its history still to deliver, the 'messages' it has just received are
\* those of the room its session is in (taken where no gateway call has
\* failed, so that every join has delivered its history).
C23_LastHistoryIsOfSessionRoom ==
  \A i \in DOMAIN emits :
     (/\ emits[i].ev = "messages"
      /\ emits[i].to = {emits[i].from}
      /\ fails = 0
      /\ ~\E u \in Running : /\ u.kind = "join"
                              /\ u.conn = emits[i].from
                              /\ u.pc \in BeforeHistory) =>
        /\ emits[i].from \in DOMAIN activeUsers
        /\ activeUsers[emits[i].from].roomId = emits[i].data.roomId

\* C24: a message whose handler ended with an error event is not persisted,
\* hence neither broadcast nor part of a later history; and every newMessage
\* carries a row that is persisted, for the room it is broadcast to.
C24_ErrorMeansNotPersisted ==
  \A i \in DOMAIN emits :
     /\ (emits[i].ev = "error" /\ emits[i].data.req # 0) =>
           /\ \A k \in DOMAIN messages : messages[k].req # emits[i].data.req
           /\ \A j \in DOMAIN bcast : bcast[j].req # emits[i].data.req
     /\ emits[i].ev = "newMessage" =>
           /\ emits[i].data.id \in DOMAIN messages
           /\ messages[emits[i].data.id].req = emits[i].data.req
           /\ messages[emits[i].data.id].room_id = emits[i].data.roomId
           /\ emits[i].to = Members(messages[emits[i].data.id].room_id)

====
